---- MODULE Spec2Model ----
(***************************************************************************)
(* Model of the Layer 3 deduplication pipeline of project_ai_newsletter:   *)
(* the SQLite article store (src/database.py), the source merger, the      *)
(* similarity classifier, the LLM adjudicator, the admission node and the  *)
(* report exporter, chained by dedup_orchestrator.py.                      *)
(***************************************************************************)
EXTENDS Integers, Sequences, FiniteSets, TLC

VARIABLES
    articles,      \* rows of table `articles`, in rowid order
    dedup_log,     \* rows of table `dedup_log`, in rowid order
    calls,         \* the last two direct store calls (newest last)
    pc,            \* node of the dedup graph the current run is at
    files,         \* content of the three Layer 2 output files
    state,         \* the DeduplicationState of the current run
    llm_response,  \* what the adjudicator call of the current run produced
    comparisons,   \* pairwise similarities computed by the current run
    run_start,     \* the two tables as they were when the current run began
    config         \* the active configuration (_current_config of src/config.py)

vars == <<articles, dedup_log, calls, pc, files, state, llm_response,
          comparisons, run_start, config>>

-----------------------------------------------------------------------------
(* Bounds *)

MaxMergeTotal == 3     \* most records over the three Layer 2 files (merger spec)
MaxCands == 2          \* most candidate records handed to one pipeline run
MaxSeed == 2           \* most records earlier runs offered to the store
MaxBatch == 2          \* longest batch in a direct store call
MaxExtraVerdicts == 1  \* verdicts an adjudicator response may carry beyond the pairs
MaxRaw == 3            \* most raw articles handed to check_url_duplicates
MaxSaves == 1          \* fetch runs that save into the cache while a processing run is under way

-----------------------------------------------------------------------------
(* Data *)

None == "None"                    \* Python None where a string or flag is expected
NoEmbedding == <<>>               \* a NULL embedding blob
NoUrl == ""                       \* article.get("url", "")
URLs == {"u1", "u2", "u3"}
SourceTypes == <<"rss", "html", "twitter">>
SourceTypeSet == {SourceTypes[i] : i \in 1..Len(SourceTypes)}

\* Embedding vectors: five-dimensional integer vectors.  eA..eD have norm 10,
\* eA2 is eA scaled by two (norm 20), so that normalisation matters.
eA == <<5, 5, 5, 5, 0>>
eB == <<5, 5, 5, 0, 5>>
eC == <<7, 5, 5, 1, 0>>
eD == <<10, 0, 0, 0, 0>>
eA2 == <<10, 10, 10, 10, 0>>

Titles == {"tA", "tB", "tC", "tD", "tA2"}

\* The embedding provider: text -> vector (deterministic for a given text).
EmbeddingOf(title) ==
    CASE title = "tA" -> eA
      [] title = "tB" -> eB
      [] title = "tC" -> eC
      [] title = "tD" -> eD
      [] OTHER -> eA2

Embeddings == {EmbeddingOf(t) : t \in Titles}

SeqsUpTo(S, n) == UNION {[1..k -> S] : k \in 0..n}

Range(s) == {s[i] : i \in DOMAIN s}

RECURSIVE SumSeq(_)
SumSeq(s) == IF s = <<>> THEN 0 ELSE Head(s) + SumSeq(Tail(s))
-----------------------------------------------------------------------------
(* src/config.py *)

DEFAULT_CONFIG == "business_news"

\* The configurations a run can be started for.
Configs == <<"business_news", "academic_papers">>

-----------------------------------------------------------------------------
(* src/database.py *)

\* The file ArticleDatabase() opens while `cfg` is the active configuration:
\* the module constant DB_PATH, whatever the configuration.  The variables
\* articles and dedup_log are the two tables of the file the run has open.
DbPath(cfg) == "data/articles.db"

\* _hash_url: sha256 hex digest of the URL (injective on the URLs used here).
HashUrl(url) == "sha256(" \o url \o ")"

\* The row an INSERT INTO articles builds from an article dict.
ArticleRow(article, embedding) ==
    [url |-> article.url,
     url_hash |-> HashUrl(article.url),
     title |-> article.title,
     source_type |-> IF "source_type" \in DOMAIN article
                     THEN article.source_type ELSE "rss",
     pub_date |-> article.date,
     embedding |-> embedding]

\* url TEXT UNIQUE NOT NULL: would the INSERT raise sqlite3.IntegrityError?
IntegrityErrorNoCheck(tbl, row) == FALSE

IntegrityError(tbl, row) == \E i \in DOMAIN tbl : tbl[i].url = row.url

\* One INSERT inside insert_articles_batch's loop: [tbl, inserted].
InsertOneCountsSkipped(acc, article, embedding) ==
    LET row == ArticleRow(article, embedding) IN
    IF IntegrityError(acc.tbl, row)
    THEN [acc EXCEPT !.inserted = @ + 1]
    ELSE [tbl |-> Append(acc.tbl, row), inserted |-> acc.inserted + 1]

InsertOne(acc, article, embedding) ==
    LET row == ArticleRow(article, embedding) IN
    IF IntegrityError(acc.tbl, row)
    THEN acc                                       \* except IntegrityError: pass
    ELSE [tbl |-> Append(acc.tbl, row), inserted |-> acc.inserted + 1]

RECURSIVE InsertLoop(_, _, _)
InsertLoop(acc, arts, embs) ==
    IF arts = <<>> \/ embs = <<>>                  \* zip stops at the shorter
    THEN acc
    ELSE InsertLoop(InsertOne(acc, Head(arts), Head(embs)), Tail(arts), Tail(embs))

\* insert_articles_batch(articles, embeddings): [tbl, inserted]
InsertArticlesBatchReplacing(tbl, arts, embs) ==
    InsertLoop([tbl |-> SelectSeq(tbl, LAMBDA row :
                           \A i \in DOMAIN arts : arts[i].url # row.url),
                inserted |-> 0], arts,
               IF embs = NoEmbedding THEN [i \in DOMAIN arts |-> NoEmbedding] ELSE embs)

InsertArticlesBatch(tbl, arts, embs) ==
    InsertLoop([tbl |-> tbl, inserted |-> 0], arts,
               IF embs = NoEmbedding THEN [i \in DOMAIN arts |-> NoEmbedding] ELSE embs)

\* insert_article(article, embedding): [tbl, ok]
InsertArticle(tbl, article, embedding) ==
    LET row == ArticleRow(article, embedding) IN
    IF IntegrityError(tbl, row)
    THEN [tbl |-> tbl, ok |-> FALSE]
    ELSE [tbl |-> Append(tbl, row), ok |-> TRUE]

\* is_empty / get_article_count
IsEmpty(tbl) == Len(tbl) = 0

\* get_existing_urls(urls): the given URLs whose hash some row carries.
GetExistingUrls(tbl, urls) ==
    IF urls = <<>> THEN {}
    ELSE {urls[k] : k \in {i \in DOMAIN urls :
                              \E r \in DOMAIN tbl : tbl[r].url_hash = HashUrl(urls[i])}}

\* log_dedup(original_url, dedup_type), every other argument left at None.
LogDedup(log, original_url, dedup_type, run_timestamp) ==
    Append(log, [run_timestamp |-> run_timestamp,
                 original_url |-> original_url,
                 duplicate_of_url |-> None,
                 dedup_type |-> dedup_type,
                 similarity_score |-> None,
                 llm_confirmed |-> None])

\* get_all_articles(with_embeddings): every row of the articles table as a
\* dict, a read that changes nothing; the embedding only on request.
GetAllArticles(tbl, with_embeddings) ==
    [i \in DOMAIN tbl |->
        IF with_embeddings THEN tbl[i] ELSE [tbl[i] EXCEPT !.embedding = NoEmbedding]]

-----------------------------------------------------------------------------
(* Clock.  Dates are day numbers, the clock is in hours. *)

NowHours == 110                   \* datetime.now() of the runs, in hours (day 4, 14:00)
Days == <<1, 4>>                  \* publication days the candidates carry
OldDay == Days[1]
NewDay == Days[2]

\* get_recent_articles: pub_date >= (now - hours) formatted as a day.
CutoffDay(hours) == (NowHours - hours) \div 24

InWindow(row, hours) == row.pub_date >= CutoffDay(hours)

\* _row_to_dict keeps the blob only if it is truthy; the node then drops
\* rows whose embedding is None.
HasEmbedding(row) == row.embedding # NoEmbedding

\* Rows a SELECT ... WHERE pub_date >= cutoff returns, as a set of rowids.
RecentIds(tbl, hours) == {i \in DOMAIN tbl : InWindow(tbl[i], hours)}

\* ORDER BY pub_date DESC; rows of equal pub_date come in an order SQLite
\* does not fix, so every order compatible with the sort is possible.
RecentOrders(tbl, hours) ==
    LET ids == RecentIds(tbl, hours)
        n == Cardinality(ids)
    IN {o \in [1..n -> ids] :
          /\ \A i, j \in 1..n : i # j => o[i] # o[j]
          /\ \A i, j \in 1..n : i < j => tbl[o[i]].pub_date >= tbl[o[j]].pub_date}

-----------------------------------------------------------------------------
(* src/functions/merge_pipeline_outputs.py *)

FileOk(arts) == [status |-> "ok", articles |-> arts]
FileMissing == [status |-> "missing", articles |-> <<>>]
FileUnreadable == [status |-> "unreadable", articles |-> <<>>]   \* JSONDecodeError, IOError
FileUndecodable == [status |-> "undecodable", articles |-> <<>>] \* bytes that are not UTF-8

\* _load_articles_from_file lets the exception out: json.load raises
\* UnicodeDecodeError, which is neither json.JSONDecodeError nor IOError.
LoadRaises(file) == file.status = "undecodable"

\* _load_articles_from_file returning: absent, unreadable (JSONDecodeError,
\* IOError) and empty files give []; otherwise every article gets its
\* source_type.
LoadArticlesFromFile(file, source_type) ==
    IF file.status # "ok" THEN <<>>
    ELSE [i \in DOMAIN file.articles |->
            [url |-> file.articles[i].url,
             title |-> file.articles[i].title,
             date |-> file.articles[i].date,
             source_type |-> source_type]]

EmptyStats ==
    [by_source_type |-> <<>>, url_collisions |-> 0,
     total_before_dedup |-> 0, total_after_dedup |-> 0]

\* Body of the inner loop: one article of one source type.
MergeArticleLastWins(acc, source_type, article) ==
    LET bumped == [acc.stats EXCEPT !.total_before_dedup = @ + 1] IN
    IF article.url \in acc.seen_urls
    THEN [acc EXCEPT
            !.all_articles = SelectSeq(@, LAMBDA a : a.url # article.url) \o <<article>>,
            !.stats = [bumped EXCEPT
                         !.url_collisions = @ + 1,
                         !.by_source_type[source_type].url_collisions = @ + 1]]
    ELSE [acc EXCEPT
            !.seen_urls = @ \cup {article.url},
            !.all_articles = Append(@, article),
            !.stats = [bumped EXCEPT !.by_source_type[source_type].kept = @ + 1]]

MergeArticle(acc, source_type, article) ==
    LET bumped == [acc.stats EXCEPT !.total_before_dedup = @ + 1] IN
    IF article.url \in acc.seen_urls
    THEN [acc EXCEPT
            !.stats = [bumped EXCEPT
                         !.url_collisions = @ + 1,
                         !.by_source_type[source_type].url_collisions = @ + 1]]
    ELSE [acc EXCEPT
            !.seen_urls = @ \cup {article.url},
            !.all_articles = Append(@, article),
            !.stats = [bumped EXCEPT !.by_source_type[source_type].kept = @ + 1]]

RECURSIVE MergeArticles(_, _, _)
MergeArticles(acc, source_type, arts) ==
    IF arts = <<>> THEN acc
    ELSE MergeArticles(MergeArticle(acc, source_type, Head(arts)), source_type, Tail(arts))

\* Body of the outer loop: one source type of ["rss", "html", "twitter"].
MergeSource(acc, source_type, input_sources, fs) ==
    IF source_type \notin Range(input_sources) THEN acc
    ELSE LET arts == LoadArticlesFromFile(fs[source_type], source_type)
             fresh == [loaded |-> Len(arts), kept |-> 0, url_collisions |-> 0]
             acc1 == [acc EXCEPT !.stats.by_source_type =
                                    (source_type :> fresh) @@ @]
         IN MergeArticles(acc1, source_type, arts)

RECURSIVE MergeSources(_, _, _, _)
MergeSources(acc, sts, input_sources, fs) ==
    IF sts = <<>> THEN acc
    ELSE MergeSources(MergeSource(acc, Head(sts), input_sources, fs),
                      Tail(sts), input_sources, fs)

\* merge_pipeline_outputs raising: a merged source type's file cannot be decoded.
MergeRaises(input_sources, fs) ==
    \E i \in DOMAIN SourceTypes :
        /\ SourceTypes[i] \in Range(input_sources)
        /\ LoadRaises(fs[SourceTypes[i]])

\* merge_pipeline_outputs returning: [articles_to_check, merge_stats]
MergeOutputsCountsLoaded(input_sources, fs) ==
    LET acc == MergeSources([all_articles |-> <<>>, seen_urls |-> {}, stats |-> EmptyStats],
                            SourceTypes, input_sources, fs)
    IN [articles_to_check |-> acc.all_articles,
        merge_stats |-> [acc.stats EXCEPT !.total_after_dedup = acc.stats.total_before_dedup]]

MergeOutputs(input_sources, fs) ==
    LET acc == MergeSources([all_articles |-> <<>>, seen_urls |-> {}, stats |-> EmptyStats],
                            SourceTypes, input_sources, fs)
    IN [articles_to_check |-> acc.all_articles,
        merge_stats |-> [acc.stats EXCEPT !.total_after_dedup = Len(acc.all_articles)]]

-----------------------------------------------------------------------------
(* src/functions/generate_embeddings.py *)

\* generate_embeddings: a copy of each article with its embedding attached.
WithEmbeddings(arts) ==
    [i \in DOMAIN arts |->
       [url |-> arts[i].url, title |-> arts[i].title, date |-> arts[i].date,
        source_type |-> arts[i].source_type,
        embedding |-> EmbeddingOf(arts[i].title)]]

-----------------------------------------------------------------------------
(* src/functions/compare_similarities.py *)

\* Similarities are kept in hundredths.
THRESHOLD_UNIQUE == 75
THRESHOLD_DUPLICATE == 90

Dot(a, b) == SumSeq([i \in DOMAIN a |-> a[i] * b[i]])

\* Euclidean norm (exact for the vectors used).
Norm(a) == CHOOSE n \in 0..Dot(a, a) : n * n = Dot(a, a)

\* sklearn cosine_similarity of two vectors, in hundredths.
Cosine(a, b) == (Dot(a, b) * 100) \div (Norm(a) * Norm(b))

\* similarities[i]: the row of one new article against the history.
SimRow(article, historical) ==
    [j \in DOMAIN historical |-> Cosine(article.embedding, historical[j].embedding)]

RECURSIVE MaxOf(_)
MaxOf(row) ==
    IF Len(row) = 1 THEN row[1]
    ELSE LET m == MaxOf(Tail(row)) IN IF row[1] >= m THEN row[1] ELSE m

\* numpy argmax: the first index holding the maximum.
ArgMaxLast(row) == CHOOSE j \in DOMAIN row :
    /\ row[j] = MaxOf(row)
    /\ \A k \in DOMAIN row : row[k] = MaxOf(row) => k <= j

ArgMax(row) == CHOOSE j \in DOMAIN row :
    /\ row[j] = MaxOf(row)
    /\ \A k \in DOMAIN row : row[k] = MaxOf(row) => j <= k

\* Body of the classification loop.
ClassifyOneInclusive(acc, article, historical) ==
    LET row == SimRow(article, historical)
        max_sim == MaxOf(row)
        max_idx == ArgMax(row)
    IN IF max_sim <= THRESHOLD_UNIQUE
       THEN [acc EXCEPT !.unique = Append(@, article)]
       ELSE IF max_sim > THRESHOLD_DUPLICATE
       THEN [acc EXCEPT !.duplicates = Append(@,
               [article |-> article, duplicate_of |-> historical[max_idx],
                similarity |-> max_sim])]
       ELSE [acc EXCEPT !.ambiguous = Append(@,
               [new_article |-> article, existing_article |-> historical[max_idx],
                similarity |-> max_sim])]

ClassifyOne(acc, article, historical) ==
    LET row == SimRow(article, historical)
        max_sim == MaxOf(row)
        max_idx == ArgMax(row)
    IN IF max_sim < THRESHOLD_UNIQUE
       THEN [acc EXCEPT !.unique = Append(@, article)]
       ELSE IF max_sim >= THRESHOLD_DUPLICATE
       THEN [acc EXCEPT !.duplicates = Append(@,
               [article |-> article, duplicate_of |-> historical[max_idx],
                similarity |-> max_sim])]
       ELSE [acc EXCEPT !.ambiguous = Append(@,
               [new_article |-> article, existing_article |-> historical[max_idx],
                similarity |-> max_sim])]

RECURSIVE ClassifyLoopAgainstBatch(_, _, _)
ClassifyLoopAgainstBatch(acc, new_articles, historical) ==
    IF new_articles = <<>> THEN acc
    ELSE LET next == ClassifyOne(acc, Head(new_articles), historical) IN
         ClassifyLoopAgainstBatch(next, Tail(new_articles),
             IF Len(next.unique) > Len(acc.unique)
             THEN Append(historical, Head(new_articles)) ELSE historical)

RECURSIVE ClassifyLoop(_, _, _)
ClassifyLoop(acc, new_articles, historical) ==
    IF new_articles = <<>> THEN acc
    ELSE ClassifyLoop(ClassifyOne(acc, Head(new_articles), historical),
                      Tail(new_articles), historical)

\* The guard of the early return.
NoHistoryFirstRunOnly(is_first_run, historical) == is_first_run

NoHistory(is_first_run, historical) == is_first_run \/ historical = <<>>

\* compare_similarities: [unique, duplicates, ambiguous, compared]
Compare(new_articles, historical, is_first_run) ==
    IF NoHistory(is_first_run, historical)
    THEN [unique |-> new_articles, duplicates |-> <<>>, ambiguous |-> <<>>,
          compared |-> 0]
    ELSE IF historical = <<>>
    THEN \* numpy cannot take the maximum of an empty row; unreachable in the code
         [unique |-> <<>>, duplicates |-> <<>>, ambiguous |-> <<>>, compared |-> 0]
    ELSE [ClassifyLoop([unique |-> <<>>, duplicates |-> <<>>, ambiguous |-> <<>>,
                        compared |-> 0], new_articles, historical)
          EXCEPT !.compared = Len(new_articles) * Len(historical)]

-----------------------------------------------------------------------------
(* src/functions/llm_confirm_duplicates.py *)

Verdict(idx, dup, why) == [pair_index |-> idx, is_duplicate |-> dup, reason |-> why]

\* The while loop that fills up a short confirmations list.
RECURSIVE PadConfirmations(_, _)
PadConfirmations(confirmations, n) ==
    IF Len(confirmations) >= n THEN confirmations
    ELSE PadConfirmations(
           Append(confirmations,
                  Verdict(Len(confirmations), FALSE,
                          "No LLM response - defaulting to unique")), n)

\* The except branch: every pair defaults to not duplicate.
ParseErrorDefaults(n) == [i \in 1..n |-> Verdict(i - 1, FALSE, "Parse error")]

\* Body of the result loop: one confirmation and the pair at its position.
ProcessConfirmationDropsUnique(acc, pair, confirmation) ==
    IF confirmation.is_duplicate
    THEN [acc EXCEPT !.duplicate_articles = Append(@,
            [article |-> pair.new_article, duplicate_of |-> pair.existing_article,
             similarity |-> pair.similarity, llm_reason |-> confirmation.reason,
             llm_confirmed |-> "True"])]
    ELSE acc

ProcessConfirmation(acc, pair, confirmation) ==
    IF confirmation.is_duplicate
    THEN [acc EXCEPT !.duplicate_articles = Append(@,
            [article |-> pair.new_article, duplicate_of |-> pair.existing_article,
             similarity |-> pair.similarity, llm_reason |-> confirmation.reason,
             llm_confirmed |-> "True"])]
    ELSE [acc EXCEPT !.unique_articles = Append(@, pair.new_article)]

\* for i, confirmation in enumerate(confirmations): pair = ambiguous_pairs[i]
\* raises IndexError as soon as i runs past the pairs.
RECURSIVE ProcessConfirmations(_, _, _, _)
ProcessConfirmations(acc, ambiguous_pairs, confirmations, i) ==
    IF i > Len(confirmations) THEN acc
    ELSE IF i > Len(ambiguous_pairs) THEN [acc EXCEPT !.raised = TRUE]
    ELSE ProcessConfirmations(
           ProcessConfirmation(acc, ambiguous_pairs[i], confirmations[i]),
           ambiguous_pairs, confirmations, i + 1)

\* llm_confirm_duplicates after the call returned `confirmations`.
ConfirmResult(st, confirmations) ==
    ProcessConfirmations(
        [unique_articles |-> st.unique_articles,
         duplicate_articles |-> st.duplicate_articles,
         raised |-> FALSE],
        st.ambiguous_pairs, confirmations, 1)

\* dict.get("llm_confirmed") of a duplicate entry.
LlmConfirmedOf(dup) ==
    IF "llm_confirmed" \in DOMAIN dup THEN dup.llm_confirmed ELSE None

Truthy(v) == v = "True"

-----------------------------------------------------------------------------
(* src/functions/store_articles.py and the log writers of src/database.py *)

DedupTypeAlwaysAuto(dup) == "semantic_auto"

DedupType(dup) == IF Truthy(LlmConfirmedOf(dup)) THEN "semantic_llm" ELSE "semantic_auto"

\* The entry store_articles builds for one confirmed duplicate.
DedupEntryFlagsAll(dup) ==
    [original_url |-> dup.article.url,
     duplicate_of_url |-> dup.duplicate_of.url,
     dedup_type |-> DedupType(dup),
     similarity_score |-> dup.similarity,
     llm_confirmed |-> "True"]

DedupEntry(dup) ==
    [original_url |-> dup.article.url,
     duplicate_of_url |-> dup.duplicate_of.url,
     dedup_type |-> DedupType(dup),
     similarity_score |-> dup.similarity,
     llm_confirmed |-> LlmConfirmedOf(dup)]

\* llm_value of log_dedup_batch.
LlmValue(v) == IF v = None THEN None ELSE IF Truthy(v) THEN "1" ELSE "0"

\* The row an INSERT INTO dedup_log builds.
LogRow(entry, run_timestamp) ==
    [run_timestamp |-> run_timestamp,
     original_url |-> entry.original_url,
     duplicate_of_url |-> entry.duplicate_of_url,
     dedup_type |-> entry.dedup_type,
     similarity_score |-> entry.similarity_score,
     llm_confirmed |-> LlmValue(entry.llm_confirmed)]

\* log_dedup_batch
LogDedupBatch(log, entries, run_timestamp) ==
    log \o [i \in DOMAIN entries |-> LogRow(entries[i], run_timestamp)]

-----------------------------------------------------------------------------
(* src/functions/export_dedup_report.py *)

CountWhere(s, P(_)) == Cardinality({i \in DOMAIN s : P(s[i])})

\* The report dict.
BuildReport(st) ==
    LET final_unique == st.final_unique
        dups == st.confirmed_duplicates
        present == {final_unique[i].source_type : i \in DOMAIN final_unique}
    IN [is_first_run |-> st.is_first_run,
        summary |->
          [total_input |-> Len(st.articles_to_check),
           unique_kept |-> Len(final_unique),
           duplicates_removed |-> Len(dups),
           url_duplicates |-> IF "url_duplicates_dropped" \in DOMAIN st
                              THEN st.url_duplicates_dropped ELSE 0,
           semantic_auto_duplicates |->
               CountWhere(dups, LAMBDA d : ~Truthy(LlmConfirmedOf(d))),
           semantic_llm_confirmed |->
               CountWhere(dups, LAMBDA d : Truthy(LlmConfirmedOf(d))),
           stored_to_db |-> st.stored_count],
        by_source_type |->
          [t \in present |-> CountWhere(final_unique, LAMBDA a : a.source_type = t)],
        cross_source_duplicates |->
          CountWhere(dups, LAMBDA d : d.article.source_type # d.duplicate_of.source_type),
        merge_stats |-> st.merge_stats,
        duplicates |->
          [i \in DOMAIN dups |->
             [removed_url |-> dups[i].article.url,
              removed_title |-> dups[i].article.title,
              duplicate_of_url |-> dups[i].duplicate_of.url,
              duplicate_of_title |-> dups[i].duplicate_of.title,
              similarity |-> dups[i].similarity,
              dedup_type |-> DedupType(dups[i]),
              reason |-> IF "llm_reason" \in DOMAIN dups[i]
                         THEN dups[i].llm_reason ELSE "Auto-detected duplicate"]]]

-----------------------------------------------------------------------------
(* Inputs *)

\* Candidate records the Layer 2 pipelines hand to a deduplication run.
Rec(u, t, d) == [url |-> u, title |-> t, date |-> d]

CandRecs ==
    {Rec("u1", "tB", NewDay), Rec("u2", "tA2", NewDay), Rec("u3", "tC", NewDay),
     Rec("u1", "tD", OldDay)}

\* Records for the merger on its own: URLs collide, some have no URL at all.
MergeRecs ==
    {Rec("u1", "tA", NewDay), Rec("u1", "tB", NewDay), Rec("u2", "tA", NewDay),
     Rec(NoUrl, "tA", NewDay), Rec(NoUrl, "tB", NewDay)}

\* Records for direct store calls.
StoreRecs == {Rec("u1", "tA", NewDay), Rec("u1", "tB", NewDay), Rec("u2", "tA", NewDay)}

LenTriples(m) == {t \in (0..m) \X (0..m) \X (0..m) : t[1] + t[2] + t[3] <= m}

FilesOfLen(recs, n, emptyKinds) ==
    IF n = 0 THEN emptyKinds ELSE {FileOk(s) : s \in [1..n -> recs]}

\* Every way of filling the three files with at most m records in all.
FileSets(recs, m, emptyKinds) ==
    UNION {[rss : FilesOfLen(recs, t[1], emptyKinds),
            html : FilesOfLen(recs, t[2], emptyKinds),
            twitter : FilesOfLen(recs, t[3], emptyKinds)] : t \in LenTriples(m)}

\* A pipeline run finds the RSS and HTML files; the Twitter pipeline has
\* not been run, so its file is missing.
PipelineFiles ==
    {[fs EXCEPT !.twitter = FileMissing] :
        fs \in {f \in FileSets(CandRecs, MaxCands, {FileOk(<<>>)}) : f.twitter = FileOk(<<>>)}}

\* Two records of different URLs with one and the same text, such as a
\* story two sites carry word for word, neither of them stored before.
TwinRecs == {Rec("u2", "tD", NewDay), Rec("u3", "tD", NewDay)}

\* The RSS and HTML files holding the two twins between them.
TwinFiles ==
    {[fs EXCEPT !.twitter = FileMissing] :
        fs \in {f \in FileSets(TwinRecs, 2, {FileOk(<<>>)}) :
                  /\ f.twitter = FileOk(<<>>)
                  /\ Range(f.rss.articles) \cup Range(f.html.articles) = TwinRecs}}

MergerFiles ==
    FileSets(MergeRecs, MaxMergeTotal,
             {FileOk(<<>>), FileMissing, FileUnreadable, FileUndecodable})

DefaultInputSources == <<"rss", "html", "browser_use", "twitter">>

InputSourceChoices ==
    {DefaultInputSources, <<"html", "rss">>, <<"twitter", "rss">>, <<"html">>}

DefaultLookback == 48

NoFiles == [rss |-> FileMissing, html |-> FileMissing, twitter |-> FileMissing]

NoResponse == [kind |-> "none", confirmations |-> <<>>]

\* What the adjudicator may answer for n pairs: verdicts in ascending
\* pair_index order, leaving pairs out or naming pairs that were never sent.
Responses(n) ==
    LET idx == 0..(n + MaxExtraVerdicts - 1)
        V == {Verdict(i, d, "llm") : i \in idx, d \in BOOLEAN}
    IN {r \in SeqsUpTo(V, n + MaxExtraVerdicts) :
          \A i, j \in DOMAIN r : i < j => r[i].pair_index < r[j].pair_index}

-----------------------------------------------------------------------------
(* dedup_orchestrator.py *)

\* initial_state of run()
InitialState(lookback_hours, input_sources) ==
    [lookback_hours |-> lookback_hours,
     input_sources |-> input_sources,
     articles_to_check |-> <<>>,
     merge_stats |-> <<>>,
     articles_with_embeddings |-> <<>>,
     historical_articles |-> <<>>,
     is_first_run |-> FALSE,
     unique_articles |-> <<>>,
     duplicate_articles |-> <<>>,
     ambiguous_pairs |-> <<>>,
     confirmed_duplicates |-> <<>>,
     confirmed_unique |-> <<>>,
     stored_count |-> 0,
     final_unique |-> <<>>,
     dedup_report |-> <<>>]

\* The articles table as earlier admissions can have left it: the rows
\* insert_articles_batch makes of up to MaxSeed earlier records, stored with
\* their embeddings or, for legacy rows, without.
SeedStores ==
    {InsertArticlesBatch(<<>>, LoadArticlesFromFile(FileOk(arts), "rss"), embs).tbl :
        <<arts, embs>> \in
            {<<a, e>> \in SeqsUpTo(CandRecs, MaxSeed) \X ({NoEmbedding} \cup SeqsUpTo(Embeddings, MaxSeed)) :
                e = NoEmbedding \/ e = [i \in DOMAIN a |-> EmbeddingOf(a[i].title)]}}

\* The decision log as an earlier run can have left it: empty, or, next to a
\* single stored record, holding the entry of a run that was offered that
\* record a second time.
SeedLogs(tbl) ==
    {<<>>} \cup
    {LogDedupBatch(<<>>, <<DedupEntry([article |-> tbl[i], duplicate_of |-> tbl[i],
                                       similarity |-> 100])>>, NowHours - 24) :
        i \in {k \in DOMAIN tbl : Len(tbl) = 1 /\ HasEmbedding(tbl[k])}}

\* A fresh database (_init_db creates empty tables).
InitStore ==
    /\ articles = <<>>
    /\ dedup_log = <<>>
    /\ calls = <<>>
    /\ pc = "idle"
    /\ files = NoFiles
    /\ state = InitialState(DefaultLookback, DefaultInputSources)
    /\ llm_response = NoResponse
    /\ comparisons = 0
    /\ run_start = [articles |-> <<>>, log_len |-> 0]
    /\ config = DEFAULT_CONFIG

Init ==
    /\ articles \in SeedStores
    /\ dedup_log \in SeedLogs(articles)
    /\ calls = <<>>
    /\ pc = "idle"
    /\ files = NoFiles
    /\ state = InitialState(DefaultLookback, DefaultInputSources)
    /\ llm_response = NoResponse
    /\ comparisons = 0
    /\ run_start = [articles |-> articles, log_len |-> Len(dedup_log)]
    /\ config = DEFAULT_CONFIG

\* run(): a new run starts on the files the Layer 2 pipelines left behind.
StartRun ==
    /\ pc = "idle"
    /\ \E fs \in PipelineFiles \cup TwinFiles :
         /\ files' = fs
         /\ state' = InitialState(DefaultLookback, DefaultInputSources)
    /\ pc' = "merge_pipeline_outputs"
    /\ llm_response' = NoResponse
    /\ comparisons' = 0
    /\ run_start' = [articles |-> articles, log_len |-> Len(dedup_log)]
    /\ config' = DEFAULT_CONFIG                    \* set_config(config)
    /\ UNCHANGED <<articles, dedup_log, calls>>

\* node merge_pipeline_outputs
MergePipelineOutputs ==
    /\ pc = "merge_pipeline_outputs"
    /\ IF MergeRaises(state.input_sources, files)
       THEN /\ pc' = "aborted"
            /\ UNCHANGED state
       ELSE /\ pc' = "generate_embeddings"
            /\ LET out == MergeOutputs(state.input_sources, files) IN
                 state' = [state EXCEPT !.articles_to_check = out.articles_to_check,
                                        !.merge_stats = out.merge_stats]
    /\ UNCHANGED <<articles, dedup_log, calls, files, llm_response,
                   comparisons, run_start, config>>

\* node generate_embeddings, the provider answering
GenerateEmbeddings ==
    /\ pc = "generate_embeddings"
    /\ state' = [state EXCEPT !.articles_with_embeddings =
                                  WithEmbeddings(state.articles_to_check)]
    /\ pc' = "load_historical_embeddings"
    /\ UNCHANGED <<articles, dedup_log, calls, files, llm_response,
                   comparisons, run_start, config>>

\* node generate_embeddings, client.embeddings.create raising
EmbeddingsRaise ==
    /\ pc = "generate_embeddings"
    /\ state.articles_to_check # <<>>
    /\ pc' = "aborted"
    /\ UNCHANGED <<articles, dedup_log, calls, files, state, llm_response,
                   comparisons, run_start, config>>

\* load_historical_embeddings as a function of the table: the possible results.
LoadResults(tbl, hours) ==
    IF IsEmpty(tbl)
    THEN {[historical_articles |-> <<>>, is_first_run |-> TRUE]}
    ELSE {[historical_articles |->
              SelectSeq([i \in DOMAIN o |-> tbl[o[i]]], HasEmbedding),
           is_first_run |-> FALSE] : o \in RecentOrders(tbl, hours)}

\* node load_historical_embeddings
LoadHistoricalEmbeddings ==
    /\ pc = "load_historical_embeddings"
    /\ \E r \in LoadResults(articles, state.lookback_hours) :
         state' = [state EXCEPT !.historical_articles = r.historical_articles,
                                !.is_first_run = r.is_first_run]
    /\ pc' = "compare_similarities"
    /\ UNCHANGED <<articles, dedup_log, calls, files, llm_response,
                   comparisons, run_start, config>>

\* node compare_similarities
CompareSimilaritiesAdmitsUnique ==
    /\ pc = "compare_similarities"
    /\ LET out == Compare(state.articles_with_embeddings, state.historical_articles,
                          state.is_first_run) IN
         /\ state' = [state EXCEPT !.unique_articles = out.unique,
                                   !.duplicate_articles = out.duplicates,
                                   !.ambiguous_pairs = out.ambiguous]
         /\ comparisons' = out.compared
         /\ articles' = InsertArticlesBatch(articles, out.unique,
                            [i \in DOMAIN out.unique |-> out.unique[i].embedding]).tbl
    /\ pc' = "llm_confirm_duplicates"
    /\ UNCHANGED <<dedup_log, calls, files, llm_response, run_start, config>>

CompareSimilarities ==
    /\ pc = "compare_similarities"
    /\ LET out == Compare(state.articles_with_embeddings, state.historical_articles,
                          state.is_first_run) IN
         /\ state' = [state EXCEPT !.unique_articles = out.unique,
                                   !.duplicate_articles = out.duplicates,
                                   !.ambiguous_pairs = out.ambiguous]
         /\ comparisons' = out.compared
    /\ pc' = "llm_confirm_duplicates"
    /\ UNCHANGED <<articles, dedup_log, calls, files, llm_response, run_start, config>>

\* llm_confirm_duplicates from the moment _call_llm_for_confirmation returned
\* `confirmations` for the response `answer`.
Confirmed(kind, answer, confirmations) ==
    LET out == ConfirmResult(state, confirmations) IN
    /\ llm_response' = [kind |-> kind, confirmations |-> answer]
    /\ IF out.raised
       THEN /\ pc' = "aborted"
            /\ UNCHANGED state
       ELSE /\ pc' = "store_articles"
            /\ state' = [state EXCEPT !.confirmed_duplicates = out.duplicate_articles,
                                      !.confirmed_unique = out.unique_articles]
    /\ UNCHANGED <<articles, dedup_log, calls, files, comparisons, run_start, config>>

\* node llm_confirm_duplicates, nothing to adjudicate: pass through
LlmNoPairs ==
    /\ pc = "llm_confirm_duplicates"
    /\ state.ambiguous_pairs = <<>>
    /\ pc' = "store_articles"
    /\ state' = [state EXCEPT !.confirmed_duplicates = state.duplicate_articles,
                              !.confirmed_unique = state.unique_articles]
    /\ UNCHANGED <<articles, dedup_log, calls, files, llm_response,
                   comparisons, run_start, config>>

\* node llm_confirm_duplicates, client.messages.create raising: nothing
\* catches it, the exception leaves the node and ends the run
LlmCallRaises ==
    /\ pc = "llm_confirm_duplicates"
    /\ state.ambiguous_pairs # <<>>
    /\ pc' = "aborted"
    /\ llm_response' = [kind |-> "raise", confirmations |-> <<>>]
    /\ UNCHANGED <<articles, dedup_log, calls, files, state, comparisons, run_start, config>>

\* node llm_confirm_duplicates, the response text is not the expected JSON
LlmParseError ==
    /\ pc = "llm_confirm_duplicates"
    /\ state.ambiguous_pairs # <<>>
    /\ Confirmed("parse_error", <<>>, ParseErrorDefaults(Len(state.ambiguous_pairs)))

\* node llm_confirm_duplicates, the response parses
LlmAnswers ==
    /\ pc = "llm_confirm_duplicates"
    /\ state.ambiguous_pairs # <<>>
    /\ \E r \in Responses(Len(state.ambiguous_pairs)) :
         Confirmed("parsed", r, PadConfirmations(r, Len(state.ambiguous_pairs)))

\* node store_articles
StoreArticles ==
    /\ pc = "store_articles"
    /\ LET unique_articles == state.confirmed_unique
           duplicate_articles == state.confirmed_duplicates
           embeddings == [i \in DOMAIN unique_articles |-> unique_articles[i].embedding]
           res == InsertArticlesBatch(articles, unique_articles, embeddings)
           dedup_entries == [i \in DOMAIN duplicate_articles |->
                                DedupEntry(duplicate_articles[i])]
       IN /\ articles' = res.tbl
          /\ dedup_log' = IF duplicate_articles # <<>>
                          THEN LogDedupBatch(dedup_log, dedup_entries, NowHours)
                          ELSE dedup_log
          /\ state' = [state EXCEPT !.stored_count = res.inserted,
                                    !.final_unique = unique_articles]
    /\ pc' = "export_dedup_report"
    /\ UNCHANGED <<calls, files, llm_response, comparisons, run_start, config>>

\* node store_articles, log_dedup_batch raising (sqlite3.OperationalError:
\* database locked, disk full): insert_articles_batch has committed on its
\* own connection, the log rows are lost with their connection, and the
\* exception ends the run.
StoreArticlesLogRaises ==
    /\ pc = "store_articles"
    /\ state.confirmed_duplicates # <<>>
    /\ LET unique_articles == state.confirmed_unique
           embeddings == [i \in DOMAIN unique_articles |-> unique_articles[i].embedding]
           res == InsertArticlesBatch(articles, unique_articles, embeddings)
       IN articles' = res.tbl
    /\ pc' = "store_failed"
    /\ UNCHANGED <<dedup_log, calls, files, state, llm_response, comparisons,
                   run_start, config>>

\* _save_all_articles: all_articles.json holds every stored article, without
\* its embedding; with an empty table the file is not written.
SaveAllArticles(tbl) ==
    LET all_articles == GetAllArticles(tbl, FALSE) IN
    IF all_articles = <<>> THEN FileMissing ELSE FileOk(all_articles)

\* node export_dedup_report: writes dedup_report.json and all_articles.json
\* into the data directory and returns the report into the state.
ExportDedupReportPrunes ==
    /\ pc = "export_dedup_report"
    /\ state' = [state EXCEPT !.dedup_report = BuildReport(state)]
    /\ files' = files @@ [dedup_report |-> BuildReport(state),
                          all_articles |-> SaveAllArticles(articles)]
    /\ articles' = SelectSeq(articles, LAMBDA row : InWindow(row, state.lookback_hours))
    /\ pc' = "done"
    /\ UNCHANGED <<dedup_log, calls, llm_response, comparisons, run_start, config>>

ExportDedupReport ==
    /\ pc = "export_dedup_report"
    /\ state' = [state EXCEPT !.dedup_report = BuildReport(state)]
    /\ files' = files @@ [dedup_report |-> BuildReport(state),
                          all_articles |-> SaveAllArticles(articles)]
    /\ pc' = "done"
    /\ UNCHANGED <<articles, dedup_log, calls, llm_response,
                   comparisons, run_start, config>>

Next ==
    \/ StartRun
    \/ MergePipelineOutputs
    \/ GenerateEmbeddings
    \/ EmbeddingsRaise
    \/ LoadHistoricalEmbeddings
    \/ CompareSimilarities
    \/ LlmNoPairs
    \/ LlmCallRaises
    \/ LlmParseError
    \/ LlmAnswers
    \/ StoreArticles
    \/ StoreArticlesLogRaises
    \/ ExportDedupReport

Spec == Init /\ [][Next]_vars

-----------------------------------------------------------------------------
(* orchestrator.py *)

\* What the main orchestrator's run() records for the deduplication layer of
\* one configuration: dedup_orchestrator.run() returned the final state, or
\* raised and the except clause kept the message of the exception.
DedupResult ==
    IF pc = "done"
    THEN [success |-> TRUE, result |-> state]
    ELSE [success |-> FALSE, error |-> "exception"]

-----------------------------------------------------------------------------
(* Runs for two configurations: one for the first configuration, then one
   for the second, or the second alone, each on the files of its own data
   directory and on the database ArticleDatabase() opens. *)

\* The files of a configuration's data directory: an RSS file of at most one
\* record.
ConfigFiles ==
    {[NoFiles EXCEPT !.rss = f] :
        f \in {FileOk(<<>>)} \cup {FileOk(<<r>>) : r \in CandRecs}}

\* run(config = cfg): set_config(cfg), then the graph.
StartRunConfig ==
    /\ \/ pc = "idle"
       \/ pc = "done" /\ config = Configs[1]
    /\ \E cfg \in Range(Configs) :
         /\ pc = "done" => cfg = Configs[2]
         /\ config' = cfg
         /\ articles' = IF DbPath(cfg) = DbPath(config) THEN articles ELSE <<>>
         /\ dedup_log' = IF DbPath(cfg) = DbPath(config) THEN dedup_log ELSE <<>>
    /\ \E fs \in ConfigFiles :
         /\ files' = fs
         /\ state' = InitialState(DefaultLookback, DefaultInputSources)
    /\ pc' = "merge_pipeline_outputs"
    /\ llm_response' = NoResponse
    /\ comparisons' = 0
    /\ run_start' = [articles |-> articles', log_len |-> Len(dedup_log')]
    /\ UNCHANGED calls

NextConfigs ==
    \/ StartRunConfig
    \/ MergePipelineOutputs
    \/ GenerateEmbeddings
    \/ EmbeddingsRaise
    \/ LoadHistoricalEmbeddings
    \/ CompareSimilarities
    \/ LlmNoPairs
    \/ LlmCallRaises
    \/ LlmParseError
    \/ LlmAnswers
    \/ StoreArticles
    \/ StoreArticlesLogRaises
    \/ ExportDedupReport

SpecConfigs == InitStore /\ [][NextConfigs]_vars

-----------------------------------------------------------------------------
(* History loading and classification on their own: any store, a lookback,
   candidates that are already embedded. *)

\* The day now - DefaultLookback falls on.
EdgeDay == CutoffDay(DefaultLookback)

\* Stored records: two of one text under different URLs, one published on
\* the day of the cutoff, one published before it.
HistRecs ==
    {Rec("u1", "tB", NewDay), Rec("u2", "tB", NewDay), Rec("u3", "tC", EdgeDay),
     Rec("u2", "tA", OldDay)}

\* Tables of up to n rows, each stored with its embedding or without.
RECURSIVE StoresUpTo(_)
StoresUpTo(n) ==
    IF n = 0 THEN {<<>>}
    ELSE LET S == StoresUpTo(n - 1) IN
         S \cup UNION {{InsertArticle(t, a, NoEmbedding).tbl,
                         InsertArticle(t, a, EmbeddingOf(a.title)).tbl} :
                           <<t, a>> \in S \X HistRecs}

HistoryStores == StoresUpTo(MaxSeed)

HistoryCands ==
    {WithEmbeddings(LoadArticlesFromFile(FileOk(c), "rss")) :
        c \in {<<Rec("u4", "tC", NewDay)>>, <<Rec("u5", "tA2", NewDay)>>,
               <<Rec("u4", "tC", NewDay), Rec("u5", "tA2", NewDay)>>}}

Lookbacks == {24, DefaultLookback}

InitHistory ==
    /\ articles \in HistoryStores
    /\ dedup_log = <<>>
    /\ calls = <<>>
    /\ pc = "load_historical_embeddings"
    /\ files = NoFiles
    /\ state \in {[InitialState(h, DefaultInputSources)
                      EXCEPT !.articles_with_embeddings = c] :
                   h \in Lookbacks, c \in HistoryCands}
    /\ llm_response = NoResponse
    /\ comparisons = 0
    /\ run_start = [articles |-> articles, log_len |-> 0]
    /\ config = DEFAULT_CONFIG

NextHistory == LoadHistoricalEmbeddings \/ CompareSimilarities

SpecHistory == InitHistory /\ [][NextHistory]_vars

-----------------------------------------------------------------------------
(* The merger on its own: any files, any input_sources, one merge. *)

InitMerge ==
    /\ articles = <<>>
    /\ dedup_log = <<>>
    /\ calls = <<>>
    /\ pc = "merge_pipeline_outputs"
    /\ files \in MergerFiles
    /\ state \in {InitialState(DefaultLookback, is) : is \in InputSourceChoices}
    /\ llm_response = NoResponse
    /\ comparisons = 0
    /\ run_start = [articles |-> <<>>, log_len |-> 0]
    /\ config = DEFAULT_CONFIG

NextMerge == MergePipelineOutputs

SpecMerge == InitMerge /\ [][NextMerge]_vars

-----------------------------------------------------------------------------
(* The store on its own: any sequence of direct insert calls. *)

\* The embeddings argument of a batch call: omitted, or one vector per article.
EmbeddingArgs(arts) == {NoEmbedding, [i \in DOMAIN arts |-> EmbeddingOf(arts[i].title)]}

\* Of the call before the last one only the operation, its batch and its
\* result are kept.
Remember(call) ==
    IF calls = <<>> THEN <<call>>
    ELSE LET last == calls[Len(calls)] IN
         <<[op |-> last.op, arts |-> last.arts, ret |-> last.ret], call>>

\* db.insert_article(article, embedding)
CallInsertArticle ==
    /\ pc = "idle"
    /\ \E a \in StoreRecs : \E e \in {NoEmbedding, EmbeddingOf(a.title)} :
         LET res == InsertArticle(articles, a, e) IN
         /\ articles' = res.tbl
         /\ calls' = Remember([op |-> "insert_article", arts |-> <<a>>,
                               ret |-> IF res.ok THEN 1 ELSE 0, before |-> articles])
    /\ UNCHANGED <<dedup_log, pc, files, state, llm_response, comparisons, run_start, config>>

\* db.insert_articles_batch(articles, embeddings)
CallInsertArticlesBatch ==
    /\ pc = "idle"
    /\ \E arts \in SeqsUpTo(StoreRecs, MaxBatch) : \E embs \in EmbeddingArgs(arts) :
         LET res == InsertArticlesBatch(articles, arts, embs) IN
         /\ articles' = res.tbl
         /\ calls' = Remember([op |-> "insert_articles_batch", arts |-> arts,
                               ret |-> res.inserted, before |-> articles])
    /\ UNCHANGED <<dedup_log, pc, files, state, llm_response, comparisons, run_start, config>>

NextStore == CallInsertArticle \/ CallInsertArticlesBatch

SpecStore == InitStore /\ [][NextStore]_vars

-----------------------------------------------------------------------------
(* src/functions/check_url_duplicates.py, the stage of the content pipeline
   that drops the raw articles whose link is already stored. *)

\* Raw articles as fetch_rss_content / load_rss_cache hand them on: the URL
\* is under the key "link", which an entry may lack.
RawArticles == {[link |-> u, title |-> "tA"] : u \in URLs \cup {NoUrl}}

\* One turn of the filter loop: acc = [kept, dropped, log].
CheckOneDropsRepeats(acc, article, existing_urls) ==
    IF article.link \in existing_urls
    THEN [acc EXCEPT !.log = LogDedup(@, article.link, "url_exact", NowHours),
                     !.dropped = @ + 1]
    ELSE IF \E i \in DOMAIN acc.kept : acc.kept[i].link = article.link
    THEN [acc EXCEPT !.dropped = @ + 1]
    ELSE [acc EXCEPT !.kept = Append(@, article)]

CheckOne(acc, article, existing_urls) ==
    IF article.link \in existing_urls
    THEN [acc EXCEPT !.log = LogDedup(@, article.link, "url_exact", NowHours),
                     !.dropped = @ + 1]
    ELSE [acc EXCEPT !.kept = Append(@, article)]

RECURSIVE CheckLoop(_, _, _)
CheckLoop(acc, raw_articles, existing_urls) ==
    IF raw_articles = <<>> THEN acc
    ELSE CheckLoop(CheckOne(acc, Head(raw_articles), existing_urls),
                   Tail(raw_articles), existing_urls)

\* check_url_duplicates(state) on the tables: [kept, dropped, log]
CheckUrlDuplicates(tbl, log, raw_articles) ==
    IF raw_articles = <<>> THEN [kept |-> <<>>, dropped |-> 0, log |-> log]
    ELSE IF IsEmpty(tbl) THEN [kept |-> raw_articles, dropped |-> 0, log |-> log]
    ELSE LET with_link == SelectSeq(raw_articles, LAMBDA a : a.link # NoUrl)
             urls == [i \in DOMAIN with_link |-> with_link[i].link]
         IN CheckLoop([kept |-> <<>>, dropped |-> 0, log |-> log], raw_articles,
                      GetExistingUrls(tbl, urls))

\* The articles table when the content pipeline runs: what earlier
\* deduplication runs stored, a record kept under the empty URL included.
UrlStores ==
    {InsertArticlesBatch(<<>>, arts, [i \in DOMAIN arts |-> EmbeddingOf("tA")]).tbl :
        arts \in SeqsUpTo({Rec(u, "tA", NewDay) : u \in {"u1", "u2", NoUrl}}, MaxSeed)}

InitUrlCheck ==
    /\ articles \in UrlStores
    /\ dedup_log \in SeedLogs(articles)
    /\ calls = <<>>
    /\ pc = "check_url_duplicates"
    /\ files = NoFiles
    /\ state \in {[raw_articles |-> raw, url_duplicates_dropped |-> 0] :
                     raw \in SeqsUpTo(RawArticles, MaxRaw)}
    /\ llm_response = NoResponse
    /\ comparisons = 0
    /\ run_start = [articles |-> articles, log_len |-> Len(dedup_log)]
    /\ config = DEFAULT_CONFIG

\* node check_url_duplicates
CheckUrlDuplicatesNode ==
    /\ pc = "check_url_duplicates"
    /\ LET res == CheckUrlDuplicates(articles, dedup_log, state.raw_articles) IN
         /\ dedup_log' = res.log
         /\ state' = [state EXCEPT !.raw_articles = res.kept,
                                   !.url_duplicates_dropped = res.dropped]
         /\ calls' = <<[op |-> "check_url_duplicates", arts |-> state.raw_articles,
                        ret |-> res.dropped, before |-> articles]>>
    /\ pc' = "filter_by_date"
    /\ UNCHANGED <<articles, files, llm_response, comparisons, run_start, config>>

NextUrlCheck == CheckUrlDuplicatesNode

SpecUrlCheck == InitUrlCheck /\ [][NextUrlCheck]_vars

-----------------------------------------------------------------------------
(* src/functions/generate_summaries.py, _summarize_batch_with_retry.  The
   articles of a batch are numbered 1..n; a summary or title is written as
   the number of the level (1 full batch, 2 and 3 the fallback sizes) whose
   call produced it. *)

BATCH_SIZE == 10
FALLBACK_BATCH_SIZES == <<7, 5>>

EmptyDict == [k \in {} |-> 0]

\* dict.update
Update(d, e) == [k \in DOMAIN d \cup DOMAIN e |-> IF k \in DOMAIN e THEN e[k] ELSE d[k]]

\* articles[i:i + size], i counted from 0
SubBatch(n, i, size) == (i + 1)..(IF i + size < n THEN i + size ELSE n)

\* What the model may answer to one call: a response that parses and covers
\* every article, one that parses but carries no summary for the first
\* article of the call, one that does not parse, or the API call raising.
Outcomes == {"all", "partial", "unparsed", "raise"}

\* _summarize_batch(articles, max_tokens): (success, summaries, titles)
SummarizeBatch(sub_batch, level, outcome) ==
    IF outcome \in {"all", "partial"}
    THEN [success |-> TRUE,
          summaries |-> [k \in (IF outcome = "all" THEN sub_batch
                                ELSE {j \in sub_batch : \E l \in sub_batch : l < j})
                           |-> level],
          titles |-> [k \in sub_batch |-> level]]
    ELSE [success |-> FALSE, summaries |-> EmptyDict, titles |-> EmptyDict]

\* Entering the loop body for one fallback size.
StartLevelKeepsTemp(st, level) == [st EXCEPT !.level = level, !.i = 0]

StartLevel(st, level) ==
    [st EXCEPT !.level = level, !.i = 0,
               !.temp_summaries = EmptyDict, !.temp_titles = EmptyDict]

\* The record kept of one call of _summarize_batch.
CallOf(level, sub_batch, max_tokens, outcome, res) ==
    [level |-> level, sub_batch |-> sub_batch, max_tokens |-> max_tokens,
     outcome |-> outcome, summaries |-> res.summaries, titles |-> res.titles]

InitSummaries ==
    /\ articles = <<>>
    /\ dedup_log = <<>>
    /\ calls = <<>>
    /\ pc = "summarize_batch_with_retry"
    /\ files = NoFiles
    /\ state \in {[n |-> n, level |-> 1, i |-> 0,
                    temp_summaries |-> EmptyDict, temp_titles |-> EmptyDict,
                    summaries |-> EmptyDict, titles |-> EmptyDict] : n \in 1..BATCH_SIZE}
    /\ llm_response = NoResponse
    /\ comparisons = 0
    /\ run_start = [articles |-> <<>>, log_len |-> 0]
    /\ config = DEFAULT_CONFIG

\* "Try with full batch first"
SummarizeFullBatch ==
    /\ pc = "summarize_batch_with_retry"
    /\ \E outcome \in Outcomes :
         LET sub_batch == 1..state.n
             res == SummarizeBatch(sub_batch, 1, outcome)
         IN /\ calls' = Append(calls, CallOf(1, sub_batch, 4096, outcome, res))
            /\ IF outcome = "raise"
               THEN pc' = "raised" /\ UNCHANGED state
               ELSE IF res.success
               THEN /\ pc' = "returned"
                    /\ state' = [state EXCEPT !.summaries = res.summaries,
                                              !.titles = res.titles]
               ELSE /\ pc' = "fallback"
                    /\ state' = StartLevel(state, 2)
    /\ UNCHANGED <<articles, dedup_log, files, llm_response, comparisons,
                   run_start, config>>

\* One turn of the inner loop over the sub-batches of a fallback size, with
\* what follows it: the next turn, the return of the level's results, the
\* next fallback size, or the empty return.
SummarizeSubBatch ==
    /\ pc = "fallback"
    /\ \E outcome \in Outcomes :
         LET fallback_size == FALLBACK_BATCH_SIZES[state.level - 1]
             sub_batch == SubBatch(state.n, state.i, fallback_size)
             max_tokens == IF fallback_size >= 7 THEN 4096 ELSE 6144
             res == SummarizeBatch(sub_batch, state.level, outcome)
             temp_summaries == Update(state.temp_summaries, res.summaries)
             temp_titles == Update(state.temp_titles, res.titles)
         IN /\ calls' = Append(calls, CallOf(state.level, sub_batch, max_tokens, outcome, res))
            /\ IF outcome = "raise"
               THEN pc' = "raised" /\ UNCHANGED state
               ELSE IF res.success
               THEN IF state.i + fallback_size < state.n
                    THEN /\ pc' = "fallback"
                         /\ state' = [state EXCEPT !.i = @ + fallback_size,
                                                   !.temp_summaries = temp_summaries,
                                                   !.temp_titles = temp_titles]
                    ELSE /\ pc' = "returned"
                         /\ state' = [state EXCEPT !.temp_summaries = temp_summaries,
                                                   !.temp_titles = temp_titles,
                                                   !.summaries = temp_summaries,
                                                   !.titles = temp_titles]
               ELSE IF state.level - 1 < Len(FALLBACK_BATCH_SIZES)
               THEN /\ pc' = "fallback"
                    /\ state' = StartLevel(state, state.level + 1)
               ELSE /\ pc' = "returned"
                    /\ state' = [state EXCEPT !.summaries = EmptyDict,
                                              !.titles = EmptyDict]
    /\ UNCHANGED <<articles, dedup_log, files, llm_response, comparisons,
                   run_start, config>>

NextSummaries == SummarizeFullBatch \/ SummarizeSubBatch

\* The function is plain sequential code: it goes on until it returns or raises.
SpecSummaries == InitSummaries /\ [][NextSummaries]_vars /\ WF_vars(NextSummaries)

-----------------------------------------------------------------------------
(* The cached RSS workflow: rss_fetch_orchestrator.py saves fetched articles
   into rss_cache.json (src/functions/save_rss_cache.py); content_orchestrator.py
   with from_cache loads them (src/functions/load_rss_cache.py), processes
   them, and archives the cache (src/functions/archive_rss_cache.py).  A
   fetch run is a process of its own and may run at any moment. *)

ARCHIVE_RETENTION_DAYS == 7

\* Articles as fetch_rss_content returns them.
FetchedArticles ==
    {[link |-> "u1", source_name |-> "alpha"],
     [link |-> "u2", source_name |-> "beta"],
     [link |-> "u3", source_name |-> "alpha"]}

\* source_filter of a run: none (None and the empty list count alike), or
\* one name.
NoFilter == <<>>
SourceFilters == {NoFilter, <<"alpha">>}

\* any(f.lower() in source_name ...): the names here are lower case and none
\* is part of another.
MatchesFilter(source_filter, article) ==
    \E i \in DOMAIN source_filter : source_filter[i] = article.source_name

\* One turn of save_rss_cache's loop: acc is the list of cached articles.
SaveOne(acc, article, now) ==
    IF article.link # NoUrl /\ \A i \in DOMAIN acc : acc[i].link # article.link
    THEN Append(acc, [link |-> article.link, source_name |-> article.source_name,
                      cached_at |-> now])
    ELSE acc

RECURSIVE SaveLoop(_, _, _)
SaveLoop(acc, raw_articles, now) ==
    IF raw_articles = <<>> THEN acc
    ELSE SaveLoop(SaveOne(acc, Head(raw_articles), now), Tail(raw_articles), now)

\* save_rss_cache: the cache file it writes.
SaveRssCache(cache, raw_articles, now) ==
    FileOk(SaveLoop(IF cache.status = "ok" THEN cache.articles ELSE <<>>,
                    raw_articles, now))

\* load_rss_cache: the raw_articles it returns.
LoadRssCache(cache, source_filter) ==
    IF cache.status # "ok" THEN <<>>
    ELSE IF source_filter # NoFilter
    THEN SelectSeq(cache.articles, LAMBDA a : MatchesFilter(source_filter, a))
    ELSE cache.articles

\* The hour an archived article counts from when the archive is pruned.
ProcessedAt(article) ==
    IF "processed_at" \in DOMAIN article THEN article.processed_at ELSE article.cached_at

\* archive_rss_cache: [cache, archive, archive_status]
ArchiveRssCache(cache, archive, now) ==
    IF cache.status # "ok" \/ cache.articles = <<>>
    THEN [cache |-> cache, archive |-> archive,
          archive_status |-> [archived |-> 0, cleared |-> FALSE]]
    ELSE LET archived_articles == IF archive.status = "ok" THEN archive.articles ELSE <<>>
             articles_to_archive ==
                 [i \in DOMAIN cache.articles |->
                     [link |-> cache.articles[i].link,
                      source_name |-> cache.articles[i].source_name,
                      cached_at |-> cache.articles[i].cached_at,
                      processed_at |-> now]]
             pruned_articles ==
                 SelectSeq(archived_articles \o articles_to_archive,
                           LAMBDA a : ProcessedAt(a) >= now - ARCHIVE_RETENTION_DAYS * 24)
         IN [cache |-> FileOk(<<>>),
             archive |-> FileOk(pruned_articles),
             archive_status |->
                 [archived |-> Len(articles_to_archive),
                  pruned |-> Len(archived_articles) + Len(articles_to_archive)
                             - Len(pruned_articles),
                  total_in_archive |-> Len(pruned_articles),
                  cleared |-> TRUE]]

\* The cache as earlier fetch runs left it, an hour ago.
CacheFiles ==
    {FileMissing} \cup
    {SaveRssCache(FileMissing, raw, NowHours - 1) : raw \in SeqsUpTo(FetchedArticles, MaxBatch)}

\* The archive as earlier processing runs left it: none, or one article
\* processed a day ago or eight days ago.
ArchiveFiles ==
    {FileMissing} \cup
    {FileOk(<<[link |-> "u0", source_name |-> "beta", cached_at |-> NowHours - h - 1,
               processed_at |-> NowHours - h]>>) : h \in {24, 8 * 24}}

\* initial_state of content_orchestrator.run(from_cache=True)
InitCache ==
    /\ articles = <<>>
    /\ dedup_log = <<>>
    /\ calls = <<>>
    /\ pc = "load_rss_cache"
    /\ files \in [rss_cache : CacheFiles, rss_cache_archive : ArchiveFiles]
    /\ state \in {[source_filter |-> f, raw_articles |-> <<>>,
                    url_duplicates_dropped |-> 0, archive_status |-> None] :
                     f \in SourceFilters}
    /\ llm_response = NoResponse
    /\ comparisons = 0
    /\ run_start = [articles |-> <<>>, log_len |-> 0]
    /\ config = DEFAULT_CONFIG

\* node load_rss_cache of the processing run
LoadRssCacheNode ==
    /\ pc = "load_rss_cache"
    /\ LET loaded == LoadRssCache(files.rss_cache, state.source_filter) IN
         /\ state' = [state EXCEPT !.raw_articles = loaded]
         /\ calls' = Append(calls, [op |-> "load_rss_cache", ret |-> loaded])
    /\ pc' = "check_url_duplicates"
    /\ UNCHANGED <<articles, dedup_log, files, llm_response, comparisons,
                   run_start, config>>

\* The stages from check_url_duplicates to save_aggregated_content of the
\* processing run; none of them reads or writes the cache files.
ProcessLoaded ==
    /\ pc = "check_url_duplicates"
    /\ LET res == CheckUrlDuplicates(articles, dedup_log, state.raw_articles) IN
         /\ dedup_log' = res.log
         /\ state' = [state EXCEPT !.raw_articles = res.kept,
                                   !.url_duplicates_dropped = res.dropped]
    /\ pc' = "archive_rss_cache"
    /\ UNCHANGED <<articles, calls, files, llm_response, comparisons,
                   run_start, config>>

\* node archive_rss_cache of the processing run
ArchiveRssCacheNode ==
    /\ pc = "archive_rss_cache"
    /\ LET res == ArchiveRssCache(files.rss_cache, files.rss_cache_archive, NowHours) IN
         /\ files' = [files EXCEPT !.rss_cache = res.cache,
                                   !.rss_cache_archive = res.archive]
         /\ state' = [state EXCEPT !.archive_status = res.archive_status]
    /\ pc' = "done"
    /\ UNCHANGED <<articles, dedup_log, calls, llm_response, comparisons,
                   run_start, config>>

\* Saves made so far by fetch runs.
Saves == SelectSeq(calls, LAMBDA c : c.op = "save_rss_cache")

\* node save_rss_cache of a fetch run, whatever the processing run is at
SaveRssCacheNode ==
    /\ Len(Saves) < MaxSaves
    /\ \E raw \in SeqsUpTo(FetchedArticles, MaxBatch) :
         /\ files' = [files EXCEPT !.rss_cache = SaveRssCache(@, raw, NowHours)]
         /\ calls' = Append(calls, [op |-> "save_rss_cache", arts |-> raw])
    /\ UNCHANGED <<articles, dedup_log, pc, state, llm_response, comparisons,
                   run_start, config>>

NextCache ==
    \/ LoadRssCacheNode
    \/ ProcessLoaded
    \/ ArchiveRssCacheNode
    \/ SaveRssCacheNode

SpecCache == InitCache /\ [][NextCache]_vars

-----------------------------------------------------------------------------
(* Properties *)

AfterCompare ==
    pc \in {"llm_confirm_duplicates", "store_articles", "export_dedup_report", "done"}

AfterConfirm == pc \in {"store_articles", "export_dedup_report", "done"}

AfterStore == pc \in {"export_dedup_report", "done"}

Candidates == state.articles_with_embeddings

\* Rows and log entries the current run added.
NewRowIds == (Len(run_start.articles) + 1)..Len(articles)
NewLogIds == (run_start.log_len + 1)..Len(dedup_log)

\* C1: after any sequence of insert_article and insert_articles_batch calls
\* the articles table holds no two rows with the same URL, nor two rows with
\* the same URL hash.
C1_UniqueUrl ==
    \A i, j \in DOMAIN articles :
        i # j => /\ articles[i].url # articles[j].url
                 /\ articles[i].url_hash # articles[j].url_hash

\* A call offered a URL that was already stored, next to another stored URL.
C1_Witness ==
    /\ calls # <<>>
    /\ LET last == calls[Len(calls)] IN
         /\ last.arts # <<>>
         /\ last.ret < Len(last.arts)
         /\ \E k \in DOMAIN last.arts, i \in DOMAIN last.before :
                last.before[i].url = last.arts[k].url
    /\ Len(articles) = 2

\* C2: insert_articles_batch(B) called a second time directly after a first
\* call with the same batch returns 0 and leaves the articles table as the
\* first call left it; an already stored URL is skipped, not an error.
C2_Idempotent ==
    (/\ Len(calls) = 2
     /\ calls[1].op = "insert_articles_batch"
     /\ calls[2].op = "insert_articles_batch"
     /\ calls[1].arts = calls[2].arts)
    => /\ calls[2].ret = 0
       /\ articles = calls[2].before

\* The same non-empty batch was inserted twice in a row and the first call
\* stored something.
C2_Witness ==
    /\ Len(calls) = 2
    /\ calls[1].op = "insert_articles_batch"
    /\ calls[2].op = "insert_articles_batch"
    /\ calls[1].arts = calls[2].arts
    /\ Len(calls[2].arts) = 2
    /\ calls[1].ret >= 1

InsertedThisRun(url) == \E i \in NewRowIds : articles[i].url = url

LoggedThisRun(url) == Cardinality({i \in NewLogIds : dedup_log[i].original_url = url})

\* C3: when a run completes, every candidate that entered classification was
\* either inserted by this run or logged by this run in exactly one
\* decision-log entry, never both and never neither.
C3_EveryCandidateDisposed ==
    pc = "done" =>
        \A k \in DOMAIN Candidates :
            LET url == Candidates[k].url IN
            \/ InsertedThisRun(url) /\ LoggedThisRun(url) = 0
            \/ ~InsertedThisRun(url) /\ LoggedThisRun(url) = 1

\* C4: when the store is empty as history is loaded the run is a first run,
\* compares nothing and classifies every candidate as unique; the same
\* all-unique outcome holds whenever the loaded historical window is empty.
C4_FirstRunSeeding ==
    (AfterCompare /\ (run_start.articles = <<>> \/ state.historical_articles = <<>>))
    => /\ (run_start.articles = <<>> => state.is_first_run)
       /\ comparisons = 0
       /\ state.unique_articles = Candidates
       /\ state.duplicate_articles = <<>>
       /\ state.ambiguous_pairs = <<>>

\* A first run classified two candidates whose embeddings are 0.75 similar
\* to each other.
C4_Witness ==
    /\ AfterCompare
    /\ run_start.articles = <<>>
    /\ state.is_first_run
    /\ Len(Candidates) = 2
    /\ Cosine(Candidates[1].embedding, Candidates[2].embedding) >= THRESHOLD_UNIQUE
    /\ Len(state.unique_articles) = 2

\* The greatest similarity of a candidate against the loaded history.
BestSim(article) ==
    LET sims == {Cosine(article.embedding, state.historical_articles[j].embedding) :
                    j \in DOMAIN state.historical_articles}
    IN CHOOSE v \in sims : \A w \in sims : v >= w

InUnique(a) == Cardinality({i \in DOMAIN state.unique_articles :
                              state.unique_articles[i] = a})
InDuplicate(a) == Cardinality({i \in DOMAIN state.duplicate_articles :
                                 state.duplicate_articles[i].article = a})
InAmbiguous(a) == Cardinality({i \in DOMAIN state.ambiguous_pairs :
                                 state.ambiguous_pairs[i].new_article = a})

\* C5: with a non-empty history every new record lands in exactly one bucket,
\* fixed by its maximum similarity s: s < 0.75 unique, 0.75 <= s < 0.90
\* ambiguous, s >= 0.90 duplicate.
C5_Buckets ==
    (AfterCompare /\ state.historical_articles # <<>>)
    => \A k \in DOMAIN Candidates :
          LET a == Candidates[k]
              s == BestSim(a)
          IN /\ InUnique(a) + InDuplicate(a) + InAmbiguous(a) = 1
             /\ (s < 75) <=> (InUnique(a) = 1)
             /\ (s >= 75 /\ s < 90) <=> (InAmbiguous(a) = 1)
             /\ (s >= 90) <=> (InDuplicate(a) = 1)

\* One run met a candidate at exactly 0.75 (ambiguous) and one at exactly
\* 0.90 (duplicate).
C5_Witness ==
    /\ AfterCompare
    /\ \E i \in DOMAIN state.ambiguous_pairs : state.ambiguous_pairs[i].similarity = 75
    /\ \E i \in DOMAIN state.duplicate_articles : state.duplicate_articles[i].similarity = 90

\* The records the merger meets, in the order it meets them.
RECURSIVE StreamOf(_)
StreamOf(sts) ==
    IF sts = <<>> THEN <<>>
    ELSE (IF Head(sts) \in Range(state.input_sources)
          THEN LoadArticlesFromFile(files[Head(sts)], Head(sts))
          ELSE <<>>) \o StreamOf(Tail(sts))

Stream == StreamOf(<<"rss", "html", "twitter">>)

FirstPos(url) == CHOOSE p \in DOMAIN Stream :
    /\ Stream[p].url = url
    /\ \A q \in DOMAIN Stream : Stream[q].url = url => p <= q

\* Records of one source type that were met after another record of the same URL.
DroppedOf(source_type) ==
    Cardinality({p \in DOMAIN Stream :
                    /\ Stream[p].source_type = source_type
                    /\ p # FirstPos(Stream[p].url)})

MergedTypes == {t \in SourceTypeSet : t \in Range(state.input_sources)}

\* C6: the merged list holds no two records with the same URL; of the records
\* sharing a URL the first one met in the order rss, html, twitter survives;
\* every dropped record adds one to its source type's url_collisions and one
\* to the global count.
C6_MergePriority ==
    pc = "generate_embeddings" =>
        LET out == state.articles_to_check
            stats == state.merge_stats
        IN /\ \A i, j \in DOMAIN out : i # j => out[i].url # out[j].url
           /\ \A p \in DOMAIN Stream :
                 \E i \in DOMAIN out : out[i] = Stream[FirstPos(Stream[p].url)]
           /\ \A i \in DOMAIN out :
                 \E p \in DOMAIN Stream : p = FirstPos(Stream[p].url) /\ out[i] = Stream[p]
           /\ DOMAIN stats.by_source_type = MergedTypes
           /\ \A t \in MergedTypes :
                 stats.by_source_type[t].url_collisions = DroppedOf(t)
           /\ stats.url_collisions = Cardinality(DOMAIN Stream) - Len(out)

\* An rss record and an html record share a URL: the rss copy is the only
\* one kept and html counts one collision.
C6_Witness ==
    /\ pc = "generate_embeddings"
    /\ Len(state.articles_to_check) = 1
    /\ state.articles_to_check[1].source_type = "rss"
    /\ "html" \in DOMAIN state.merge_stats.by_source_type
    /\ state.merge_stats.by_source_type["html"].url_collisions = 1
    /\ state.merge_stats.url_collisions = 1

\* C7: the report satisfies len(duplicates) = url_duplicates +
\* semantic_auto_duplicates + semantic_llm_confirmed and unique_kept +
\* duplicates_removed = total_input.
C7_ReportAccounting ==
    pc = "done" =>
        LET r == state.dedup_report IN
        /\ Len(r.duplicates) = r.summary.url_duplicates
                               + r.summary.semantic_auto_duplicates
                               + r.summary.semantic_llm_confirmed
        /\ r.summary.unique_kept + r.summary.duplicates_removed = r.summary.total_input
        /\ r.summary.total_input = Len(Candidates)

\* A finished run in which the adjudicator kept one candidate and the
\* classifier removed another.
C7_Witness ==
    /\ pc = "done"
    /\ llm_response.kind = "parsed"
    /\ state.dedup_report.summary.unique_kept = 1
    /\ state.dedup_report.summary.semantic_auto_duplicates = 1

\* C8: store_articles offers every record of the final unique set (the
\* unique ones and the adjudicated non-duplicates) for insertion with its
\* embedding, and appends one decision-log entry per confirmed duplicate with
\* the URL of the paired historical record, the similarity, and kind
\* semantic_llm exactly for the duplicates the adjudicator confirmed.
C8_Admission ==
    AfterStore =>
        LET uniq == state.confirmed_unique
            dups == state.confirmed_duplicates
            auto == Len(state.duplicate_articles)
        IN /\ \A i \in DOMAIN state.unique_articles : uniq[i] = state.unique_articles[i]
           /\ state.final_unique = uniq
           /\ \A i \in DOMAIN uniq :
                 \/ \E k \in NewRowIds :
                       /\ articles[k].url = uniq[i].url
                       /\ articles[k].title = uniq[i].title
                       /\ articles[k].embedding = uniq[i].embedding
                 \/ \E k \in DOMAIN run_start.articles :
                       run_start.articles[k].url = uniq[i].url
           /\ Cardinality(NewLogIds) = Len(dups)
           /\ \A i \in DOMAIN dups :
                 LET e == dedup_log[run_start.log_len + i] IN
                 /\ e.original_url = dups[i].article.url
                 /\ e.duplicate_of_url = dups[i].duplicate_of.url
                 /\ \E h \in DOMAIN state.historical_articles :
                       state.historical_articles[h].url = e.duplicate_of_url
                 /\ e.similarity_score = dups[i].similarity
                 /\ e.dedup_type = IF i > auto THEN "semantic_llm" ELSE "semantic_auto"

\* One run logged a duplicate of each kind.
C8_Witness ==
    /\ AfterStore
    /\ \E i, j \in NewLogIds :
          /\ dedup_log[i].dedup_type = "semantic_auto"
          /\ dedup_log[j].dedup_type = "semantic_llm"

\* C9: if the adjudicator call throws or its response cannot be parsed, every
\* ambiguous pair resolves to not duplicate, its new record joins the unique
\* set, and the run goes on to admission.
C9_AdjudicatorFallback ==
    llm_response.kind \in {"raise", "parse_error"} =>
        /\ AfterConfirm
        /\ \A i \in DOMAIN state.ambiguous_pairs :
              /\ \E k \in DOMAIN state.confirmed_unique :
                    state.confirmed_unique[k] = state.ambiguous_pairs[i].new_article
              /\ \A k \in DOMAIN state.confirmed_duplicates :
                    state.confirmed_duplicates[k].article # state.ambiguous_pairs[i].new_article

\* pair_index values (0-based) for which the response carries a verdict.
Answered == {llm_response.confirmations[i].pair_index :
                i \in DOMAIN llm_response.confirmations}

\* C10: when the response carries verdicts for a subset of the ambiguous
\* pairs, identified by pair_index, every pair without a verdict is resolved
\* as not duplicate.
C10_MissingVerdictDefaults ==
    (/\ llm_response.kind = "parsed"
     /\ AfterConfirm
     /\ Answered \subseteq 0..(Len(state.ambiguous_pairs) - 1))
    => \A i \in DOMAIN state.ambiguous_pairs :
          (i - 1) \notin Answered =>
              /\ \E k \in DOMAIN state.confirmed_unique :
                    state.confirmed_unique[k] = state.ambiguous_pairs[i].new_article
              /\ \A k \in DOMAIN state.confirmed_duplicates :
                    state.confirmed_duplicates[k].article # state.ambiguous_pairs[i].new_article

\* C11: every ambiguous pair the adjudicator stage resolved, as duplicate or
\* as not duplicate, has exactly one decision-log entry of this run for the
\* new record's URL; the entry is of kind semantic_llm and its llm_confirmed
\* flag is 1 for a confirmed duplicate and 0 otherwise.
C11_AmbiguousLogged ==
    AfterStore =>
        \A i \in DOMAIN state.ambiguous_pairs :
            LET new == state.ambiguous_pairs[i].new_article
                entries == {k \in NewLogIds : dedup_log[k].original_url = new.url}
                dup == \E k \in DOMAIN state.confirmed_duplicates :
                          state.confirmed_duplicates[k].article = new
            IN /\ Cardinality(entries) = 1
               /\ \A k \in entries :
                     /\ dedup_log[k].dedup_type = "semantic_llm"
                     /\ dedup_log[k].llm_confirmed = IF dup THEN "1" ELSE "0"

BeforeAdmission ==
    pc \in {"idle", "merge_pipeline_outputs", "generate_embeddings",
            "load_historical_embeddings", "compare_similarities",
            "llm_confirm_duplicates", "store_articles", "aborted"}

Written == articles # run_start.articles \/ Len(dedup_log) # run_start.log_len

\* How often a candidate is in the adjudicated result.
Adjudicated(a) ==
    Cardinality({i \in DOMAIN state.confirmed_unique : state.confirmed_unique[i] = a})
    + Cardinality({i \in DOMAIN state.confirmed_duplicates :
                      state.confirmed_duplicates[i].article = a})

\* C12: up to and including a run that embedding generation or the
\* adjudicator call ended, neither table differs from what it was when the
\* run began; once a table differs, every merged record has been embedded
\* and every candidate is in the adjudicated result exactly once.
C12_NoWriteBeforeAdjudicated ==
    /\ BeforeAdmission => ~Written
    /\ Written =>
          /\ Candidates = WithEmbeddings(state.articles_to_check)
          /\ \A k \in DOMAIN Candidates : Adjudicated(Candidates[k]) = 1

\* The adjudicator call raised while a candidate already classified unique
\* was waiting for admission.
C12_Witness ==
    /\ pc = "aborted"
    /\ llm_response.kind = "raise"
    /\ state.unique_articles # <<>>
    /\ ~Written

\* C13: when a store write of store_articles failed, the store holds neither
\* articles nor decision-log entries of this run.
C13_AllOrNothing == pc = "store_failed" => ~Written

IsPrefix(s, t) == Len(s) <= Len(t) /\ \A i \in DOMAIN s : s[i] = t[i]

\* C14: no step of the pipeline deletes or changes a row of articles or an
\* entry of the decision log: each table before a step is a prefix of the
\* table after it.
C14_Additive ==
    [][IsPrefix(articles, articles') /\ IsPrefix(dedup_log, dedup_log')]_vars

\* store_articles added a row and a log entry to tables that both held
\* something before the run.
C14_Witness ==
    /\ AfterStore
    /\ run_start.articles # <<>>
    /\ run_start.log_len > 0
    /\ Len(articles) > Len(run_start.articles)
    /\ Len(dedup_log) > run_start.log_len

\* C15: a run for the second configuration, which no run was made for
\* before, has an empty historical window, is a first run and keeps every
\* candidate as unique, whether or not a run for the first configuration
\* admitted records before it.
C15_ConfigSeparation ==
    (config = Configs[2] /\ AfterCompare)
    => /\ state.historical_articles = <<>>
       /\ state.is_first_run
       /\ state.unique_articles = Candidates
       /\ state.duplicate_articles = <<>>
       /\ state.ambiguous_pairs = <<>>

\* The instant a stored record is dated: pub_date is a day ("%Y-%m-%d"),
\* the record is as old as the start of that day.
TimestampHours(row) == row.pub_date * 24

\* C16: the loaded historical window holds exactly the stored records that
\* carry an embedding and are dated within the last lookback_hours hours.
C16_WindowExact ==
    pc \in {"compare_similarities", "llm_confirm_duplicates"} =>
        /\ Range(state.historical_articles) =
              {articles[i] : i \in {k \in DOMAIN articles :
                  /\ HasEmbedding(articles[k])
                  /\ TimestampHours(articles[k]) >= NowHours - state.lookback_hours}}
        /\ Len(state.historical_articles) = Cardinality(Range(state.historical_articles))

\* Similarity of an embedded record to the j-th record of the loaded history.
SimTo(a, j) == Cosine(a.embedding, state.historical_articles[j].embedding)

\* The history record `other` paired at similarity s with the record a is the
\* first one of the history that reaches the greatest similarity to a.
PairedWithFirstBest(a, other, s) ==
    /\ \A j \in DOMAIN state.historical_articles : SimTo(a, j) <= s
    /\ \E j \in DOMAIN state.historical_articles :
          /\ state.historical_articles[j] = other
          /\ SimTo(a, j) = s
          /\ \A k \in 1..(j - 1) : SimTo(a, k) < s

\* C17: every duplicate and every ambiguous pair of compare_similarities
\* names the history record of greatest similarity to the new record, the
\* one of lowest history index among several, and records that similarity.
C17_BestMatch ==
    pc = "llm_confirm_duplicates" =>
        /\ \A i \in DOMAIN state.duplicate_articles :
              LET d == state.duplicate_articles[i] IN
              PairedWithFirstBest(d.article, d.duplicate_of, d.similarity)
        /\ \A i \in DOMAIN state.ambiguous_pairs :
              LET p == state.ambiguous_pairs[i] IN
              PairedWithFirstBest(p.new_article, p.existing_article, p.similarity)

\* An ambiguous pair whose similarity two history records reach.
C17_Witness ==
    /\ pc = "llm_confirm_duplicates"
    /\ \E i \in DOMAIN state.ambiguous_pairs :
          LET p == state.ambiguous_pairs[i] IN
          \E j, k \in DOMAIN state.historical_articles :
              /\ j < k
              /\ SimTo(p.new_article, j) = p.similarity
              /\ SimTo(p.new_article, k) = p.similarity
              /\ p.existing_article = state.historical_articles[j]

\* Place of a source type in the list the caller passed.
ListedPos(source_type) ==
    CHOOSE p \in DOMAIN state.input_sources :
        /\ state.input_sources[p] = source_type
        /\ \A q \in 1..(p - 1) : state.input_sources[q] # source_type

\* C18: the merger follows the order of input_sources: every listed source
\* type is merged, and of the records sharing a URL the one kept belongs to
\* the source type listed first among them.
C18_CallerPriority ==
    pc = "generate_embeddings" =>
        LET out == state.articles_to_check IN
        /\ DOMAIN state.merge_stats.by_source_type = Range(state.input_sources)
        /\ \A i \in DOMAIN out : \A p \in DOMAIN Stream :
              Stream[p].url = out[i].url =>
                  ListedPos(out[i].source_type) <= ListedPos(Stream[p].source_type)

\* C19: no record without a URL is in the merged output.
C19_NoUrlDropped ==
    pc = "generate_embeddings" =>
        \A i \in DOMAIN state.articles_to_check : state.articles_to_check[i].url # NoUrl

\* The input of a source type is absent, unreadable or empty.
NoInput(file) == file.status # "ok" \/ file.articles = <<>>

\* C20: once the merge node has been run on files of which a listed source
\* type's is absent, unreadable or empty, the merge has completed, reports
\* loaded = 0 for that source type, and its output is the merge of the other
\* listed source types.
C20_NoInputIsEmpty ==
    pc # "merge_pipeline_outputs" =>
        \A t \in MergedTypes :
            NoInput(files[t]) =>
                /\ pc = "generate_embeddings"
                /\ state.merge_stats.by_source_type[t].loaded = 0
                /\ state.articles_to_check =
                      MergeOutputs(SelectSeq(state.input_sources, LAMBDA x : x # t),
                                   files).articles_to_check

\* The run ended in an exception: before admission, or while the store was
\* being written.
RunFailed == pc \in {"aborted", "store_failed"}

\* C21: when a pipeline-level failure ends a run, the caller still gets a
\* report, in which stored_to_db is 0 and an error reason is present.
C21_FailureReported ==
    RunFailed =>
        /\ "result" \in DOMAIN DedupResult
        /\ DedupResult.result.dedup_report # <<>>
        /\ DedupResult.result.dedup_report.summary.stored_to_db = 0
        /\ "error" \in DOMAIN DedupResult.result.dedup_report

\* C22: the export_dedup_report stage leaves the articles table and the
\* decision log exactly as it found them.
C22_ExporterReadOnly ==
    [][pc = "export_dedup_report" => articles' = articles /\ dedup_log' = dedup_log]_vars

\* The exporter ran over a store holding rows from before the run, a row and
\* a log entry of this run, and wrote all_articles.json.
C22_Witness ==
    /\ pc = "done"
    /\ run_start.articles # <<>>
    /\ NewRowIds # {}
    /\ NewLogIds # {}
    /\ \E i \in DOMAIN articles : ~InWindow(articles[i], state.lookback_hours)
    /\ files.all_articles.status = "ok"
    /\ Len(files.all_articles.articles) = Len(articles)

\* The article carries a link and a stored row has that URL.
StoredLink(a) == a.link # NoUrl /\ \E r \in DOMAIN articles : articles[r].url = a.link

\* The decision-log entries the stage wrote, oldest first.
NewLog == SubSeq(dedup_log, run_start.log_len + 1, Len(dedup_log))

\* C23: on a non-empty store check_url_duplicates keeps, in their order,
\* exactly the articles whose link is not stored (an article without a link
\* has no stored link), counts the others as dropped, kept + dropped = input,
\* and writes one url_exact entry per dropped article; on an empty store it
\* keeps every article and writes nothing.
C23_UrlSplit ==
    pc = "filter_by_date" =>
        LET raw == calls[1].arts
            kept == state.raw_articles
            gone == SelectSeq(raw, StoredLink)
        IN IF articles = <<>>
           THEN kept = raw /\ state.url_duplicates_dropped = 0 /\ NewLog = <<>>
           ELSE /\ Len(kept) + state.url_duplicates_dropped = Len(raw)
                /\ kept = SelectSeq(raw, LAMBDA a : ~StoredLink(a))
                /\ \A i \in DOMAIN kept : ~StoredLink(kept[i])
                /\ Len(NewLog) = Len(gone)
                /\ \A i \in DOMAIN gone :
                      /\ NewLog[i].original_url = gone[i].link
                      /\ NewLog[i].dedup_type = "url_exact"

\* The stage met a stored link twice and an unstored link once in one
\* input, the log holding an entry of an earlier run.
C23_Witness ==
    /\ pc = "filter_by_date"
    /\ articles # <<>>
    /\ run_start.log_len = 1
    /\ state.url_duplicates_dropped = 2
    /\ Len(NewLog) = 2
    /\ NewLog[1].original_url = NewLog[2].original_url
    /\ Len(state.raw_articles) = 1

Ceil(a, b) == (a + b - 1) \div b

Parsed(c) == c.outcome \in {"all", "partial"}

\* Sub-batch size of a level of the ladder.
LadderSize(level) == IF level = 1 THEN state.n ELSE IF level = 2 THEN 7 ELSE 5

First(S) == CHOOSE x \in S : \A y \in S : x <= y
Last(S) == CHOOSE x \in S : \A y \in S : x >= y

\* The calls made so far follow the ladder, and a returned result is that of
\* the first level whose calls all parsed.
LadderInv ==
    /\ Len(calls) <= 1 + Ceil(state.n, 7) + Ceil(state.n, 5)
    /\ \A k \in DOMAIN calls :
          LET c == calls[k] IN
          /\ c.level \in 1..3
          /\ Last(c.sub_batch) =
                IF First(c.sub_batch) + LadderSize(c.level) - 1 < state.n
                THEN First(c.sub_batch) + LadderSize(c.level) - 1 ELSE state.n
          /\ k = 1 => c.level = 1 /\ First(c.sub_batch) = 1
          /\ k > 1 =>
                LET q == calls[k - 1] IN
                /\ q.outcome # "raise"
                /\ IF Parsed(q)
                   THEN /\ q.level > 1
                        /\ c.level = q.level
                        /\ First(c.sub_batch) = Last(q.sub_batch) + 1
                   ELSE /\ c.level = q.level + 1
                        /\ First(c.sub_batch) = 1
    /\ pc = "returned" =>
          LET last == calls[Len(calls)]
              level == {k \in DOMAIN calls : calls[k].level = last.level}
          IN IF Parsed(last)
             THEN /\ Last(last.sub_batch) = state.n
                  /\ \A k \in level : Parsed(calls[k])
                  /\ DOMAIN state.summaries = UNION {DOMAIN calls[k].summaries : k \in level}
                  /\ DOMAIN state.titles = UNION {DOMAIN calls[k].titles : k \in level}
                  /\ \A a \in DOMAIN state.summaries : state.summaries[a] = last.level
                  /\ \A a \in DOMAIN state.titles : state.titles[a] = last.level
             ELSE /\ last.level = 3
                  /\ state.summaries = EmptyDict
                  /\ state.titles = EmptyDict

\* C24: _summarize_batch_with_retry calls the full batch, then sub-batches of
\* 7, then sub-batches of 5, leaves a level at its first call that does not
\* parse, returns the results of the first level whose calls all parsed and
\* nothing else, or nothing when no level got through, makes at most
\* 1 + ceil(n/7) + ceil(n/5) calls, and always comes to an end.
C24_RetryLadder == []LadderInv /\ <>(pc \in {"returned", "raised"})

\* The size-7 level was left half done and the size-5 level got through,
\* one of its responses carrying no summary for its first article.
C24_Witness ==
    /\ pc = "returned"
    /\ Len(calls) = 5
    /\ Parsed(calls[2]) /\ ~Parsed(calls[3])
    /\ calls[4].outcome = "partial"
    /\ \A a \in DOMAIN state.summaries : state.summaries[a] = 3

\* C25: whatever parsed response the adjudicator gave, with fewer verdicts
\* than pairs, as many, or more, llm_confirm_duplicates completes, every
\* ambiguous pair is resolved exactly once, and confirmed_unique and
\* confirmed_duplicates together hold as many records as the unique,
\* duplicate and ambiguous buckets held.
C25_EveryPairResolvedOnce ==
    llm_response.kind = "parsed" =>
        /\ AfterConfirm
        /\ \A i \in DOMAIN state.ambiguous_pairs :
              Adjudicated(state.ambiguous_pairs[i].new_article) = 1
        /\ Len(state.confirmed_unique) + Len(state.confirmed_duplicates)
              = Len(state.unique_articles) + Len(state.duplicate_articles)
                + Len(state.ambiguous_pairs)

\* The candidate matches nothing the store holds: no stored row has its URL
\* and no record of the loaded history is as similar as the lower threshold.
MatchesNoHistory(a) ==
    /\ \A r \in DOMAIN run_start.articles : run_start.articles[r].url # a.url
    /\ state.historical_articles # <<>> => BestSim(a) < THRESHOLD_UNIQUE

\* The buckets compare_similarities gives a candidate that is alone in its run.
Alone(a) == Compare(<<a>>, state.historical_articles, state.is_first_run)

\* C26: compare_similarities puts a candidate in the bucket it would land in
\* were it the only candidate of the run; two candidates of different URLs
\* and identical embeddings, neither matching history, are both classified
\* unique and, once store_articles has run, both stored by this run.
C26_BucketIndependent ==
    /\ pc = "llm_confirm_duplicates" =>
          \A k \in DOMAIN Candidates :
              LET a == Candidates[k]
                  alone == Alone(a)
              IN /\ InUnique(a) = Len(alone.unique)
                 /\ InDuplicate(a) = Len(alone.duplicates)
                 /\ InAmbiguous(a) = Len(alone.ambiguous)
    /\ AfterCompare =>
          \A i, j \in DOMAIN Candidates :
              LET a == Candidates[i]
                  b == Candidates[j]
              IN (/\ i < j
                  /\ a.url # b.url
                  /\ a.embedding = b.embedding
                  /\ MatchesNoHistory(a)
                  /\ MatchesNoHistory(b))
                 => /\ InUnique(a) = 1
                    /\ InUnique(b) = 1
                    /\ AfterStore => InsertedThisRun(a.url) /\ InsertedThisRun(b.url)

\* Two twins were compared with a loaded history and both stored.
C26_Witness ==
    /\ AfterStore
    /\ state.historical_articles # <<>>
    /\ Len(Candidates) = 2
    /\ Candidates[1].url # Candidates[2].url
    /\ Candidates[1].embedding = Candidates[2].embedding
    /\ InsertedThisRun(Candidates[1].url)
    /\ InsertedThisRun(Candidates[2].url)

\* C27: in the decision log every semantic_auto entry has a similarity of at
\* least 0.90 and no llm_confirmed value, and every semantic_llm entry has a
\* similarity of at least 0.75 and below 0.90 and llm_confirmed 1.
C27_LogKinds ==
    \A i \in DOMAIN dedup_log :
        LET e == dedup_log[i] IN
        /\ e.dedup_type = "semantic_auto" =>
              /\ e.similarity_score >= 90
              /\ e.llm_confirmed = None
        /\ e.dedup_type = "semantic_llm" =>
              /\ e.similarity_score >= 75
              /\ e.similarity_score < 90
              /\ e.llm_confirmed = "1"

\* A log that an earlier run left an entry in received, from this run, an
\* entry at exactly 0.90 and an entry the adjudicator confirmed at 0.75.
C27_Witness ==
    /\ run_start.log_len > 0
    /\ \E i, j \in NewLogIds :
          /\ dedup_log[i].dedup_type = "semantic_auto"
          /\ dedup_log[i].similarity_score = 90
          /\ dedup_log[j].dedup_type = "semantic_llm"
          /\ dedup_log[j].similarity_score = 75

\* The per-type statistics of the merged source types, in merge order.
TypeStats ==
    LET by == state.merge_stats.by_source_type
        merged == SelectSeq(SourceTypes, LAMBDA t : t \in DOMAIN by)
    IN [i \in DOMAIN merged |-> by[merged[i]]]

\* C28: in the merge statistics loaded = kept + url_collisions for every
\* merged source type, the global url_collisions is the sum of the per-type
\* ones, total_before_dedup is the sum of loaded, and total_after_dedup is
\* the sum of kept and the length of the merged list.
C28_StatsConserved ==
    pc = "generate_embeddings" =>
        LET stats == state.merge_stats IN
        /\ \A i \in DOMAIN TypeStats :
              TypeStats[i].loaded = TypeStats[i].kept + TypeStats[i].url_collisions
        /\ stats.url_collisions =
              SumSeq([i \in DOMAIN TypeStats |-> TypeStats[i].url_collisions])
        /\ stats.total_before_dedup = SumSeq([i \in DOMAIN TypeStats |-> TypeStats[i].loaded])
        /\ stats.total_after_dedup = SumSeq([i \in DOMAIN TypeStats |-> TypeStats[i].kept])
        /\ stats.total_after_dedup = Len(state.articles_to_check)

\* Three source types were merged, a record was kept and a later one of each
\* of two other types collided with it.
C28_Witness ==
    /\ pc = "generate_embeddings"
    /\ Len(TypeStats) = 3
    /\ TypeStats[1].kept = 1
    /\ TypeStats[2].url_collisions = 1
    /\ TypeStats[3].url_collisions = 1
    /\ state.merge_stats.total_before_dedup = 3

\* What load_rss_cache handed to the processing run.
Loaded == LET l == SelectSeq(calls, LAMBDA c : c.op = "load_rss_cache")
          IN IF l = <<>> THEN {} ELSE Range(l[1].ret)

\* Articles in the active cache.
Cached(cache) == IF cache.status = "ok" THEN Range(cache.articles) ELSE {}

\* C29: archive_rss_cache takes out of the active cache only articles that
\* the same processing run got from load_rss_cache, whether or not a fetch
\* run saved into the cache in between and whether or not the run has a
\* source filter.
C29_ArchiveOnlyLoaded ==
    [][pc = "archive_rss_cache" /\ pc' = "done"
         => (Cached(files.rss_cache) \ Cached(files'.rss_cache)) \subseteq Loaded]_vars

\* An external call of the run failed: the embedding provider, the
\* adjudicator call, or a write to the store.
ExternalCallFailed ==
    \/ pc = "store_failed"
    \/ llm_response.kind = "raise"
    \/ pc = "aborted" /\ llm_response.kind = "none" /\ state.articles_to_check # <<>>

\* C30: a run none of whose external calls failed does not end in an
\* exception, and when it has passed its seven stages it returns a state
\* whose dedup_report summary is filled in from the run.
C30_SuccessfulRunCompletes ==
    /\ RunFailed => ExternalCallFailed
    /\ pc = "done" =>
          /\ DedupResult.success
          /\ DedupResult.result.dedup_report.summary.total_input = Len(Candidates)
          /\ DedupResult.result.dedup_report.summary.stored_to_db = Cardinality(NewRowIds)

====
